---- MODULE Spec2Model ----
(***************************************************************************)
(* S3StorageService (nest-storage-lib): a facade over an object-storage    *)
(* client.  One gateway call is in progress at a time; its per-item remote *)
(* commands are in flight concurrently and are settled by the remote       *)
(* service in any order.  Items a rejected batch left in flight keep       *)
(* running, also after the caller has started the next call.               *)
(*                                                                         *)
(* An optional DTO field is a sequence of length <= 1: <<>> is an absent   *)
(* field (undefined), <<v>> a field holding v.  A string (an object key, a *)
(* prefix, a content type) is a sequence of tokens, so that the empty      *)
(* string is <<>>; a body is a sequence of bytes.                          *)
(***************************************************************************)
EXTENDS Integers, Sequences, FiniteSets, TLC

\* Largest batch handed to uploadFiles / downloadFiles / deleteFiles.
MaxBatch == 2

None == <<>>
Some(v) == <<v>>

KeyA == <<"a">>
KeyAB == <<"a", "b">>

Buckets == {"b"}

Refs == { [bucket |-> b, key |-> k] : b \in Buckets, k \in {KeyA, KeyAB} }

Contents == { <<1, 2>>, <<3>> }

NoObj == [present |-> FALSE]

OctetStream == <<"application/octet-stream">>

TextPlain == <<"text/plain">>

DefaultExpiresIn == 3600

UploadDtos ==
  { [bucket |-> "b", key |-> KeyA, content |-> <<1, 2>>, contentType |-> None],
    [bucket |-> "b", key |-> KeyA, content |-> <<3>>, contentType |-> Some(TextPlain)],
    [bucket |-> "b", key |-> KeyAB, content |-> <<1, 2>>, contentType |-> Some(<<>>)] }

DownloadDtos == Refs

DeleteDtos == Refs

ListDtos ==
  { [bucket |-> b, prefix |-> p] :
      b \in Buckets, p \in {None, Some(<<>>), Some(KeyAB), Some(<<"z">>)} }

SignDtos ==
  { [bucket |-> "b", key |-> KeyA, expiresIn |-> e[1], expiresInSeconds |-> e[2]] :
      e \in {<<None, None>>, <<Some(0), None>>, <<Some(1800), None>>, <<None, Some(1800)>>} }

Urls == {"https://signedurl", "https://other"}

Batches(S) == UNION { [1..n -> S] : n \in 0..MaxBatch }

RefOf(d) == [bucket |-> d.bucket, key |-> d.key]

VARIABLES
  store,     \* the remote service: Refs -> NoObj or the stored object
  bg,        \* write/delete commands abandoned by earlier rejected calls, in flight
  op,        \* the operation of the current call ("idle" before the first)
  reqs,      \* its argument: a sequence of DTOs (one DTO for list and sign)
  items,     \* per-item promise of the batch
  values,    \* Promise.all's array of fulfilment values
  outcome,   \* what the caller has observed of the call
  trace,     \* logger calls and remote commands issued by the call, in order
  reply,     \* the last response a collaborator delivered to the call
  want,      \* history: per ref, the contents the latest upload batch has written to
             \* it since anything else last wrote or deleted it
  firstRej,  \* history: the item of the call that rejected first in time (0: none)
  stage      \* history: how many calls of the end-to-end sequence the caller has
             \* made, each after the one before it succeeded (Off: left it)

vars ==
  <<store, bg, op, reqs, items, values, outcome, trace, reply, want, firstRej,
    stage>>

----------------------------------------------------------------------------
\* JavaScript operators used by the service.

\* a || b on a string: undefined and the empty string are falsy.
OrElse(opt, dflt) ==
  IF opt = None THEN dflt
  ELSE IF opt[1] = <<>> THEN dflt
  ELSE opt[1]

\* a ?? b: only undefined (or null) gives b.
Nullish(opt, dflt) == IF opt = None THEN dflt ELSE opt[1]

RECURSIVE BufferConcatReversed(_)
BufferConcatReversed(chunks) ==
  IF chunks = <<>> THEN <<>>
  ELSE BufferConcatReversed(Tail(chunks)) \o Head(chunks)

RECURSIVE BufferConcat(_)
BufferConcat(chunks) ==
  IF chunks = <<>> THEN <<>>
  ELSE Head(chunks) \o BufferConcat(Tail(chunks))

\* Promise.all keeps each fulfilment value at the index of its promise.
StoreValueInArrivalOrder(vals, i, v) ==
  LET k == CHOOSE j \in DOMAIN vals :
             vals[j] = None /\ \A h \in 1..(j - 1) : vals[h] # None
  IN  [vals EXCEPT ![k] = Some(v)]

StoreValue(vals, i, v) == [vals EXCEPT ![i] = Some(v)]

\* Promise.all fulfils once every promise of the array is fulfilled.
AnyFulfilled(its) == \E j \in DOMAIN its : its[j].st = "fulfilled"

AllFulfilled(its) == \A j \in DOMAIN its : its[j].st = "fulfilled"

----------------------------------------------------------------------------
\* Commands, log entries and errors.

PutObjectCommandRaw(file) ==
  [name |-> "PutObject", Bucket |-> file.bucket, Key |-> file.key,
   Body |-> file.content, ContentType |-> Nullish(file.contentType, OctetStream)]

PutObjectCommandEmptyBody(file) ==
  [name |-> "PutObject", Bucket |-> file.bucket, Key |-> file.key,
   Body |-> <<>>, ContentType |-> OrElse(file.contentType, OctetStream)]

PutObjectCommand(file) ==
  [name |-> "PutObject", Bucket |-> file.bucket, Key |-> file.key,
   Body |-> file.content, ContentType |-> OrElse(file.contentType, OctetStream)]

GetObjectCommand(file) ==
  [name |-> "GetObject", Bucket |-> file.bucket, Key |-> file.key]

DeleteObjectCommand(file) ==
  [name |-> "DeleteObject", Bucket |-> file.bucket, Key |-> file.key]

ListObjectsV2CommandBucketAsPrefix(data) ==
  [name |-> "ListObjectsV2", Bucket |-> data.bucket, Prefix |-> <<data.bucket>>]

ListObjectsV2Command(data) ==
  [name |-> "ListObjectsV2", Bucket |-> data.bucket,
   Prefix |-> OrElse(data.prefix, <<>>)]

SignOptionsMillis(data) ==
  [expiresIn |-> Nullish(data.expiresIn, DefaultExpiresIn * 1000)]

SignOptions(data) == [expiresIn |-> Nullish(data.expiresIn, DefaultExpiresIn)]

Sent(cmd) == [kind |-> "send", cmd |-> cmd]

Signed(cmd, options) ==
  [kind |-> "sign", client |-> "this.s3", cmd |-> cmd, options |-> options]

Log(msg) == [kind |-> "log", level |-> "log", msg |-> msg]

\* logger.error(message, error.stack): the remote client rejects with Error objects.
LogError(msg, error) ==
  [kind |-> "log", level |-> "error", msg |-> msg, detail |-> error.stack]

\* The error the remote client rejects item i with (0: the call's single command).
RemoteError(i) == [item |-> i, stack |-> <<"stack", i>>]

StartMsg(o) ==
  CASE o = "upload" -> "Uploading file(s) to S3..."
    [] o = "download" -> "Downloading file(s) from S3..."
    [] o = "delete" -> "Deleting file(s) from S3..."
    [] o = "list" -> "Listing files from bucket"
    [] o = "sign" -> "Generating signed URL"

FailMsg(o) ==
  CASE o = "upload" -> "Failed to upload files to S3"
    [] o = "download" -> "Failed to download files from S3"
    [] o = "delete" -> "Failed to delete files from S3"
    [] o = "list" -> "Failed to list files from S3"
    [] o = "sign" -> "Failed to generate signed URL"

\* What the collaborator answered to the single command of listFiles / getSignedUrl.
NoReply == [kind |-> "none"]

Response(v) == [kind |-> "response", value |-> v]

Failure(error) == [kind |-> "error", error |-> error]

Pending == [status |-> "pending", value |-> None, error |-> None]

Return(v) == [status |-> "ok", value |-> v, error |-> None]

ReturnEmpty(error) == [status |-> "ok", value |-> <<>>, error |-> None]

\* throw error: the caller receives the remote client's error itself.
Rethrow(error) == [status |-> "err", value |-> None, error |-> Some(error)]

CatchSilently(o, t, error) == [outcome |-> Rethrow(error), trace |-> t]

\* The catch block of an operation: one error log entry, then the re-throw.
Catch(o, t, error) ==
  [outcome |-> Rethrow(error), trace |-> Append(t, LogError(FailMsg(o), error))]

\* A rejection of item i reaches the catch block only while the aggregate
\* promise is unsettled; Promise.all ignores every later rejection.
OnItemRejectedEveryTime(o, t, oc, i) == Catch(o, t, RemoteError(i))

OnItemRejected(o, t, oc, i) ==
  IF oc.status = "pending" THEN Catch(o, t, RemoteError(i))
  ELSE [outcome |-> oc, trace |-> t]

\* Nothing in the catch block touches the promises still in flight.
CancelInFlight(its) ==
  [j \in DOMAIN its |->
     IF its[j].st = "pending" THEN [its[j] EXCEPT !.st = "cancelled"] ELSE its[j]]

LeaveInFlight(its) == its

----------------------------------------------------------------------------
\* The remote object store.

Stored(cmd) == [present |-> TRUE, body |-> cmd.Body, ctype |-> cmd.ContentType]

\* The object a command addresses.
Addressed(cmd) == [bucket |-> cmd.Bucket, key |-> cmd.Key]

Apply(st, cmd) ==
  IF cmd.name = "PutObject" THEN [st EXCEPT ![Addressed(cmd)] = Stored(cmd)]
  ELSE [st EXCEPT ![Addressed(cmd)] = NoObj]

IsPrefix(p, k) == Len(p) <= Len(k) /\ SubSeq(k, 1, Len(p)) = p

\* Keys in the lexicographic order in which the service lists them.
KeysSorted == <<KeyA, KeyAB>>

Matching(st, bucket, prefix) ==
  SelectSeq(KeysSorted,
            LAMBDA k : /\ [bucket |-> bucket, key |-> k] \in Refs
                       /\ st[[bucket |-> bucket, key |-> k]].present
                       /\ IsPrefix(prefix, k))

\* One ListObjectsV2 response holds at most one page of keys (MaxKeys, 1000 in
\* the service; here one less than the largest container of the model holds).
ListPageLimit == Cardinality(Refs) - 1

FirstPage(keys) ==
  IF Len(keys) <= ListPageLimit THEN keys ELSE SubSeq(keys, 1, ListPageLimit)

\* response.Contents?.map(obj => obj.Key!) ?? []
KeysOfResponse(response) ==
  IF response.Contents = None THEN <<>>
  ELSE [j \in DOMAIN response.Contents[1] |-> response.Contents[1][j].Key]

----------------------------------------------------------------------------
\* State after construction: an empty remote store, no call made yet.

NewItem(cmd) ==
  [st |-> "pending", cmd |-> cmd, body |-> <<>>, rest |-> <<>>,
   chunks |-> <<>>, late |-> FALSE]

Init ==
  /\ store = [r \in Refs |-> NoObj]
  /\ bg = {}
  /\ op = "idle"
  /\ reqs = <<>>
  /\ items = <<>>
  /\ values = <<>>
  /\ outcome = Return(None)
  /\ trace = <<>>
  /\ reply = NoReply
  /\ want = [r \in Refs |-> {}]
  /\ firstRej = 0
  /\ stage = 0

BatchOps == {"upload", "download", "delete"}

Settled == outcome.status # "pending"

\* Writes and deletes of the previous call that are still in flight when the
\* caller starts the next call.  (A read left in flight changes nothing and its
\* result is dropped.)
Abandoned ==
  IF op \in {"upload", "delete"}
  THEN {items[j].cmd : j \in {h \in DOMAIN items : items[h].st = "pending"}}
  ELSE {}

\* The end-to-end sequence of calls on the empty container: upload one object,
\* list the container, download the object, delete it, list again.
EndToEnd ==
  <<[op |-> "upload",
     data |-> <<[bucket |-> "b", key |-> KeyA, content |-> <<1, 2>>,
                 contentType |-> None]>>],
    [op |-> "list", data |-> [bucket |-> "b", prefix |-> Some(<<>>)]],
    [op |-> "download", data |-> <<[bucket |-> "b", key |-> KeyA]>>],
    [op |-> "delete", data |-> <<[bucket |-> "b", key |-> KeyA]>>],
    [op |-> "list", data |-> [bucket |-> "b", prefix |-> Some(<<>>)]]>>

Off == Len(EndToEnd) + 1

\* The caller makes call o(data): the sequence goes on if this is its next
\* call and the call before it succeeded, and is left otherwise.
StageAfterCall(o, data) ==
  IF /\ stage < Len(EndToEnd)
     /\ outcome.status = "ok"
     /\ o = EndToEnd[stage + 1].op
  THEN IF data = EndToEnd[stage + 1].data THEN stage + 1 ELSE Off
  ELSE Off

\* The caller awaits each call before it makes the next one, and commands
\* abandoned before the previous call have all reached the service or failed.
CallerReady ==
  /\ Settled
  /\ bg = {}

\* The synchronous part of a batch operation: the start notice, then one
\* command sent per request (data.map runs to the first await of each item);
\* Promise.all of an empty array is fulfilled at once.
StartBatch(o, data, cmds, onDone) ==
  /\ CallerReady
  /\ op' = o
  /\ reqs' = data
  /\ items' = [j \in DOMAIN data |-> NewItem(cmds[j])]
  /\ values' = [j \in DOMAIN data |-> None]
  /\ bg' = bg \cup Abandoned
  /\ reply' = NoReply
  /\ firstRej' = 0
  /\ stage' = StageAfterCall(o, data)
  /\ LET sent == <<Log(StartMsg(o))>> \o [j \in DOMAIN data |-> Sent(cmds[j])]
     IN  IF AllFulfilled(items')
         THEN /\ trace' = sent \o onDone
              /\ outcome' = Return(<<>>)
         ELSE /\ trace' = sent
              /\ outcome' = Pending
  /\ UNCHANGED store

UploadFiles(data) ==
  /\ StartBatch("upload", data, [j \in DOMAIN data |-> PutObjectCommand(data[j])],
                <<Log("Upload completed successfully.")>>)
  /\ want' = [r \in Refs |-> {}]

DeleteFiles(data) ==
  /\ StartBatch("delete", data, [j \in DOMAIN data |-> DeleteObjectCommand(data[j])],
                <<Log("Deletion completed successfully.")>>)
  /\ UNCHANGED want

DownloadFiles(data) ==
  /\ StartBatch("download", data, [j \in DOMAIN data |-> GetObjectCommand(data[j])],
                <<>>)
  /\ UNCHANGED want

\* The array Promise.all fulfils with.
ValuesOf(vals) == [j \in DOMAIN vals |-> Nullish(vals[j], None)]

\* The continuation of the call when promise i has just been fulfilled.
AfterFulfilled(its, vals, onDone, result) ==
  IF ~Settled /\ AllFulfilled(its)
  THEN /\ trace' = trace \o onDone
       /\ outcome' = Return(result)
  ELSE UNCHANGED <<trace, outcome>>

\* The remote service applies the write of item i and acknowledges it.
PutObjectFulfilled(i) ==
  /\ op = "upload"
  /\ i \in DOMAIN items
  /\ items[i].st = "pending"
  /\ store' = Apply(store, items[i].cmd)
  /\ items' = [items EXCEPT ![i].st = "fulfilled", ![i].late = Settled]
  /\ values' = StoreValue(values, i, <<>>)
  /\ AfterFulfilled(items', values', <<Log("Upload completed successfully.")>>, None)
  /\ want' = [want EXCEPT ![Addressed(items[i].cmd)] =
                IF Settled THEN {} ELSE @ \cup {reqs[i].content}]
  /\ UNCHANGED <<bg, op, reqs, reply, firstRej, stage>>

\* The remote service applies the delete of item i and acknowledges it
\* (deleting an absent object succeeds).
DeleteObjectFulfilled(i) ==
  /\ op = "delete"
  /\ i \in DOMAIN items
  /\ items[i].st = "pending"
  /\ store' = Apply(store, items[i].cmd)
  /\ items' = [items EXCEPT ![i].st = "fulfilled", ![i].late = Settled]
  /\ values' = StoreValue(values, i, <<>>)
  /\ AfterFulfilled(items', values', <<Log("Deletion completed successfully.")>>, None)
  /\ want' = [want EXCEPT ![Addressed(items[i].cmd)] = {}]
  /\ UNCHANGED <<bg, op, reqs, reply, firstRej, stage>>

\* The remote client rejects the command of item i (nothing is applied).
ItemRejected(i) ==
  /\ op \in BatchOps
  /\ i \in DOMAIN items
  /\ items[i].st \in {"pending", "draining"}
  /\ LET next == OnItemRejected(op, trace, outcome, i)
     IN  /\ outcome' = next.outcome
         /\ trace' = next.trace
  /\ items' = [LeaveInFlight(items) EXCEPT ![i] = [NewItem(@.cmd) EXCEPT !.st = "rejected"]]
  /\ firstRej' = (IF firstRej = 0 THEN i ELSE firstRej)
  /\ want' = (IF op = "upload" THEN [r \in Refs |-> {}] ELSE want)
  /\ UNCHANGED <<store, bg, op, reqs, values, reply, stage>>

\* The remote service answers the read of item i with the object's byte stream.
GetObjectResponded(i) ==
  /\ op = "download"
  /\ i \in DOMAIN items
  /\ items[i].st = "pending"
  /\ store[Addressed(items[i].cmd)].present
  /\ items' = [items EXCEPT ![i].st = "draining",
                            ![i].body = store[Addressed(items[i].cmd)].body,
                            ![i].rest = store[Addressed(items[i].cmd)].body]
  /\ UNCHANGED <<store, bg, op, reqs, values, outcome, trace, reply,
                 want, firstRej, stage>>

\* for await (const chunk of stream) chunks.push(chunk): the next n bytes of the
\* stream arrive; after the last of them the stream ends and the item returns
\* Buffer.concat(chunks).
StreamChunk(i, n) ==
  /\ op = "download"
  /\ i \in DOMAIN items
  /\ items[i].st = "draining"
  /\ n \in 1..Len(items[i].rest)
  /\ LET chunks == Append(items[i].chunks, SubSeq(items[i].rest, 1, n))
         rest == SubSeq(items[i].rest, n + 1, Len(items[i].rest))
     IN  IF rest # <<>>
         THEN /\ items' = [items EXCEPT ![i].chunks = chunks, ![i].rest = rest]
              /\ UNCHANGED <<values, outcome, trace>>
         ELSE /\ items' = [items EXCEPT ![i].st = "fulfilled", ![i].chunks = <<>>,
                                        ![i].rest = <<>>]
              /\ values' = StoreValue(values, i, BufferConcat(chunks))
              /\ AfterFulfilled(items', values', <<>>, ValuesOf(values'))
  /\ UNCHANGED <<store, bg, op, reqs, reply, want, firstRej, stage>>

\* listFiles: the start notice, then the single list command.
ListFiles(data) ==
  /\ CallerReady
  /\ op' = "list"
  /\ reqs' = <<data>>
  /\ items' = <<>>
  /\ values' = <<>>
  /\ bg' = bg \cup Abandoned
  /\ reply' = NoReply
  /\ firstRej' = 0
  /\ stage' = StageAfterCall("list", data)
  /\ trace' = <<Log(StartMsg("list")), Sent(ListObjectsV2Command(data))>>
  /\ outcome' = Pending
  /\ UNCHANGED <<store, want>>

\* The service answers with one page of the matching keys; with no matching
\* key the response carries no Contents (or, as in the tests, an empty one).
ListResponses(cmd) ==
  LET page == FirstPage(Matching(store, cmd.Bucket, cmd.Prefix))
      full == [Contents |-> Some([j \in DOMAIN page |-> [Key |-> page[j]]]),
               IsTruncated |-> Len(page) < Len(Matching(store, cmd.Bucket, cmd.Prefix))]
  IN  IF page = <<>> THEN {full, [full EXCEPT !.Contents = None]} ELSE {full}

ListObjectsResponded ==
  /\ op = "list"
  /\ ~Settled
  /\ \E response \in ListResponses(trace[2].cmd) :
       /\ reply' = Response(response)
       /\ trace' = Append(trace, Log("Found file(s)."))
       /\ outcome' = Return(KeysOfResponse(response))
  /\ UNCHANGED <<store, bg, op, reqs, items, values, want, firstRej, stage>>

\* getSignedUrl: the start notice, then the call of the presigner.
GetSignedUrl(data) ==
  /\ CallerReady
  /\ op' = "sign"
  /\ reqs' = <<data>>
  /\ items' = <<>>
  /\ values' = <<>>
  /\ bg' = bg \cup Abandoned
  /\ reply' = NoReply
  /\ firstRej' = 0
  /\ stage' = StageAfterCall("sign", data)
  /\ trace' = <<Log(StartMsg("sign")), Signed(GetObjectCommand(data), SignOptions(data))>>
  /\ outcome' = Pending
  /\ UNCHANGED <<store, want>>

\* return url
SignedUrlResult(url) == url

PresignerResolved(url) ==
  /\ op = "sign"
  /\ ~Settled
  /\ reply' = Response(url)
  /\ trace' = Append(trace, Log("Signed URL generated successfully."))
  /\ outcome' = Return(SignedUrlResult(url))
  /\ UNCHANGED <<store, bg, op, reqs, items, values, want, firstRej, stage>>

\* The single remote command of listFiles or getSignedUrl is rejected.
CommandRejected ==
  /\ op \in {"list", "sign"}
  /\ ~Settled
  /\ reply' = Failure(RemoteError(0))
  /\ LET next == Catch(op, trace, RemoteError(0))
     IN  /\ outcome' = next.outcome
         /\ trace' = next.trace
  /\ firstRej' = 0
  /\ UNCHANGED <<store, bg, op, reqs, items, values, want, stage>>

\* An abandoned write or delete reaches the service after all.
BackgroundApplied(cmd) ==
  /\ cmd \in bg
  /\ bg' = bg \ {cmd}
  /\ store' = Apply(store, cmd)
  /\ want' = [want EXCEPT ![Addressed(cmd)] = {}]
  /\ UNCHANGED <<op, reqs, items, values, outcome, trace, reply, firstRej, stage>>

\* An abandoned write or delete fails; nobody is told.
BackgroundFailed(cmd) ==
  /\ cmd \in bg
  /\ bg' = bg \ {cmd}
  /\ UNCHANGED <<store, op, reqs, items, values, outcome, trace, reply,
                 want, firstRej, stage>>

Commands ==
  {PutObjectCommand(d) : d \in UploadDtos} \cup {DeleteObjectCommand(d) : d \in DeleteDtos}

Next ==
  \/ \E data \in Batches(UploadDtos) : UploadFiles(data)
  \/ \E data \in Batches(DownloadDtos) : DownloadFiles(data)
  \/ \E data \in Batches(DeleteDtos) : DeleteFiles(data)
  \/ \E data \in ListDtos : ListFiles(data)
  \/ \E data \in SignDtos : GetSignedUrl(data)
  \/ \E i \in 1..MaxBatch : PutObjectFulfilled(i)
  \/ \E i \in 1..MaxBatch : DeleteObjectFulfilled(i)
  \/ \E i \in 1..MaxBatch : GetObjectResponded(i)
  \/ \E i \in 1..MaxBatch, n \in 1..2 : StreamChunk(i, n)
  \/ \E i \in 1..MaxBatch : ItemRejected(i)
  \/ ListObjectsResponded
  \/ \E url \in Urls : PresignerResolved(url)
  \/ CommandRejected
  \/ \E cmd \in Commands : BackgroundApplied(cmd)
  \/ \E cmd \in Commands : BackgroundFailed(cmd)

Spec == Init /\ [][Next]_vars

----------------------------------------------------------------------------
\* The service with a logger whose calls may throw.  Spec above is the service
\* with a logger that always returns (the Logger of @nestjs/common); here any
\* single logger call may throw instead.

\* The error a failing logger call throws.
LoggerError == [item |-> -1, stack |-> <<"logger">>]

\* A logger call that threw instead of returning.
Threw(entry) == [entry EXCEPT !.kind = "threw"]

DoneMsg(o) ==
  CASE o = "upload" -> "Upload completed successfully."
    [] o = "delete" -> "Deletion completed successfully."
    [] o = "list" -> "Found file(s)."
    [] o = "sign" -> "Signed URL generated successfully."

InputsOf(o) ==
  CASE o = "upload" -> Batches(UploadDtos)
    [] o = "download" -> Batches(DownloadDtos)
    [] o = "delete" -> Batches(DeleteDtos)
    [] o = "list" -> ListDtos
    [] o = "sign" -> SignDtos

\* The start notice is logged before the try block: when it throws, the call
\* rejects with the logger's error and no remote command has been issued.
StartNoticeThrew(o, data) ==
  /\ CallerReady
  /\ op' = o
  /\ reqs' = (IF o \in BatchOps THEN data ELSE <<data>>)
  /\ items' = <<>>
  /\ values' = <<>>
  /\ bg' = bg \cup Abandoned
  /\ reply' = NoReply
  /\ firstRej' = 0
  /\ stage' = StageAfterCall(o, data)
  /\ trace' = <<Threw(Log(StartMsg(o)))>>
  /\ outcome' = Rethrow(LoggerError)
  /\ want' = (IF o = "upload" THEN [r \in Refs |-> {}] ELSE want)
  /\ UNCHANGED store

\* The completion notice is logged inside the try block: when it throws, the
\* catch block logs the logger's error and re-throws it.
CatchNoticeThrew(o, t) == Catch(o, Append(t, Threw(Log(DoneMsg(o)))), LoggerError)

\* uploadFiles / deleteFiles of an empty batch: Promise.all([]) is fulfilled
\* at once and the completion notice throws.
EmptyBatchNoticeThrew(o) ==
  /\ o \in {"upload", "delete"}
  /\ CallerReady
  /\ op' = o
  /\ reqs' = <<>>
  /\ items' = <<>>
  /\ values' = <<>>
  /\ bg' = bg \cup Abandoned
  /\ reply' = NoReply
  /\ firstRej' = 0
  /\ stage' = StageAfterCall(o, <<>>)
  /\ LET next == CatchNoticeThrew(o, <<Log(StartMsg(o))>>)
     IN  /\ outcome' = next.outcome
         /\ trace' = next.trace
  /\ want' = (IF o = "upload" THEN [r \in Refs |-> {}] ELSE want)
  /\ UNCHANGED store

\* The last write or delete of the batch is applied and acknowledged, and the
\* completion notice throws.
FulfilledNoticeThrew(i) ==
  /\ op \in {"upload", "delete"}
  /\ ~Settled
  /\ i \in DOMAIN items
  /\ items[i].st = "pending"
  /\ store' = Apply(store, items[i].cmd)
  /\ items' = [items EXCEPT ![i].st = "fulfilled"]
  /\ AllFulfilled(items')
  /\ values' = StoreValue(values, i, <<>>)
  /\ LET next == CatchNoticeThrew(op, trace)
     IN  /\ outcome' = next.outcome
         /\ trace' = next.trace
  /\ want' = [want EXCEPT ![Addressed(items[i].cmd)] =
                IF op = "upload" THEN @ \cup {reqs[i].content} ELSE {}]
  /\ UNCHANGED <<bg, op, reqs, reply, firstRej, stage>>

\* The collaborator answers the single command of listFiles / getSignedUrl
\* and the completion notice throws.
ResponseNoticeThrew ==
  /\ op \in {"list", "sign"}
  /\ ~Settled
  /\ reply' \in (IF op = "list"
                 THEN {Response(response) : response \in ListResponses(trace[2].cmd)}
                 ELSE {Response(url) : url \in Urls})
  /\ LET next == CatchNoticeThrew(op, trace)
     IN  /\ outcome' = next.outcome
         /\ trace' = next.trace
  /\ UNCHANGED <<store, bg, op, reqs, items, values, want, firstRej, stage>>

\* logger.error throws inside the catch block: the call rejects with the
\* logger's error instead of the error it caught.
CatchErrorNoticeThrew(o, t, error) ==
  [outcome |-> Rethrow(LoggerError),
   trace |-> Append(t, Threw(LogError(FailMsg(o), error)))]

\* Item i is rejected first and the error notice throws.
ItemRejectedNoticeThrew(i) ==
  /\ op \in BatchOps
  /\ ~Settled
  /\ i \in DOMAIN items
  /\ items[i].st \in {"pending", "draining"}
  /\ LET next == CatchErrorNoticeThrew(op, trace, RemoteError(i))
     IN  /\ outcome' = next.outcome
         /\ trace' = next.trace
  /\ items' = [LeaveInFlight(items) EXCEPT ![i] = [NewItem(@.cmd) EXCEPT !.st = "rejected"]]
  /\ firstRej' = i
  /\ want' = (IF op = "upload" THEN [r \in Refs |-> {}] ELSE want)
  /\ UNCHANGED <<store, bg, op, reqs, values, reply, stage>>

\* The single command of listFiles / getSignedUrl is rejected and the error
\* notice throws.
CommandRejectedNoticeThrew ==
  /\ op \in {"list", "sign"}
  /\ ~Settled
  /\ reply' = Failure(RemoteError(0))
  /\ LET next == CatchErrorNoticeThrew(op, trace, RemoteError(0))
     IN  /\ outcome' = next.outcome
         /\ trace' = next.trace
  /\ firstRej' = 0
  /\ UNCHANGED <<store, bg, op, reqs, items, values, want, stage>>

NextFaultyLogger ==
  \/ Next
  \/ \E o \in BatchOps \cup {"list", "sign"} : \E data \in InputsOf(o) :
       StartNoticeThrew(o, data)
  \/ \E o \in {"upload", "delete"} : EmptyBatchNoticeThrew(o)
  \/ \E i \in 1..MaxBatch : FulfilledNoticeThrew(i)
  \/ ResponseNoticeThrew
  \/ \E i \in 1..MaxBatch : ItemRejectedNoticeThrew(i)
  \/ CommandRejectedNoticeThrew

SpecFaultyLogger == Init /\ [][NextFaultyLogger]_vars

----------------------------------------------------------------------------
\* Properties.

ErrorLogs == SelectSeq(trace, LAMBDA e : e.kind = "log" /\ e.level = "error")

Issued == SelectSeq(trace, LAMBDA e : e.kind \in {"send", "sign"})

Rejected == {j \in DOMAIN items : items[j].st = "rejected"}

InFlight == {j \in DOMAIN items : items[j].st \in {"pending", "draining"}}

\* C1: in a batch call, as soon as any item has rejected the call has rejected,
\* with the error of the item that rejected first in time, and the call has
\* recorded exactly one error log entry however many items rejected.
C1_FirstRejectionOnce ==
  op \in BatchOps =>
    /\ Rejected # {} =>
         /\ outcome.status = "err"
         /\ firstRej \in Rejected
         /\ outcome.error = Some(RemoteError(firstRej))
         /\ Len(ErrorLogs) = 1
         /\ ErrorLogs[1] = LogError(FailMsg(op), RemoteError(firstRej))
    /\ outcome.status = "err" => Rejected # {}
    /\ Rejected = {} => ErrorLogs = <<>>

\* Two items of the batch have rejected, the second of the input first.
C1_Witness ==
  /\ op \in BatchOps
  /\ outcome.status = "err"
  /\ {1, 2} \subseteq Rejected
  /\ firstRej = 2

\* C2: downloadFiles returns one buffer per request, in the order of the
\* requests: result[i] is the body the service served for the get-object
\* command of request i, which addresses the object of request i.
C2_DownloadOrder ==
  (op = "download" /\ outcome.status = "ok") =>
    /\ Len(outcome.value) = Len(reqs)
    /\ \A j \in DOMAIN reqs :
         /\ Addressed(items[j].cmd) = RefOf(reqs[j])
         /\ outcome.value[j] = items[j].body

\* A download of two objects with different bodies has resolved.
C2_Witness ==
  /\ op = "download"
  /\ outcome.status = "ok"
  /\ Len(reqs) = 2
  /\ reqs[1] # reqs[2]
  /\ outcome.value[1] # outcome.value[2]
  /\ store[RefOf(reqs[1])].present
  /\ outcome.value[1] = store[RefOf(reqs[1])].body

\* C3 as stated: after an upload batch has resolved, a download of its refs
\* returns for each request the content uploaded in that request (want[r] holds
\* the contents the batch's requests wrote to r, and is emptied by a delete).
C3_RoundTripEveryBatch ==
  (op = "download" /\ outcome.status = "ok") =>
    \A j \in DOMAIN reqs :
      \A c \in want[RefOf(reqs[j])] : outcome.value[j] = c

\* C3 amended: the same for every ref that the batch wrote with one content
\* only and that nothing else has written or deleted since the batch wrote it.
C3_RoundTrip ==
  (op = "download" /\ outcome.status = "ok") =>
    \A j \in DOMAIN reqs :
      Cardinality(want[RefOf(reqs[j])]) = 1 =>
        outcome.value[j] \in want[RefOf(reqs[j])]

\* Both objects of a resolved two-request upload batch have been downloaded.
C3_Witness ==
  /\ op = "download"
  /\ outcome.status = "ok"
  /\ Len(reqs) = 2
  /\ reqs[1] # reqs[2]
  /\ \A j \in DOMAIN reqs : Cardinality(want[RefOf(reqs[j])]) = 1
  /\ outcome.value[1] = <<3>>
  /\ outcome.value[2] = <<1, 2>>

\* C4: when uploadFiles or deleteFiles has reported success, no item of the
\* batch is in flight: the service has applied and acknowledged every one of
\* them before the call resolved, and the completion notice is the last entry.
C4_ResolvesAfterAll ==
  (op \in {"upload", "delete"} /\ outcome.status = "ok") =>
    /\ InFlight = {}
    /\ \A j \in DOMAIN items : items[j].st = "fulfilled" /\ ~items[j].late
    /\ trace[Len(trace)].kind = "log"
    /\ trace[Len(trace)].level = "log"
    /\ Len(Issued) = Len(reqs)

\* A two-request upload has resolved and both writes are in the store.
C4_Witness ==
  /\ op = "upload"
  /\ outcome.status = "ok"
  /\ Len(reqs) = 2
  /\ RefOf(reqs[1]) # RefOf(reqs[2])
  /\ \A j \in DOMAIN reqs : store[RefOf(reqs[j])] = Stored(items[j].cmd)

\* C5: the step in which uploadFiles or deleteFiles rejects leaves the store
\* as it is (nothing is rolled back) and leaves every other in-flight item in
\* flight (nothing is cancelled); a write or delete that completes afterwards
\* changes neither what the caller observed nor the log.
C5_NotAtomic ==
  [][ /\ (/\ op \in {"upload", "delete"}
          /\ outcome.status = "pending"
          /\ outcome'.status = "err")
         => /\ store' = store
            /\ \A j \in DOMAIN items :
                 (items[j].st = "pending" /\ items'[j].st # "rejected")
                   => items'[j] = items[j]
      /\ (/\ op \in {"upload", "delete"}
          /\ outcome.status = "err"
          /\ \E j \in DOMAIN items :
               /\ items[j].st = "pending"
               /\ j \in DOMAIN items'
               /\ items'[j].st \in {"fulfilled", "rejected"})
         => (outcome' = outcome /\ trace' = trace) ]_vars

\* An upload has rejected, and afterwards the service applied another of its writes.
C5_Witness ==
  /\ op = "upload"
  /\ outcome.status = "err"
  /\ \E j \in DOMAIN items :
       /\ items[j].st = "fulfilled"
       /\ items[j].late
       /\ store[RefOf(reqs[j])] = Stored(items[j].cmd)

\* C6 as stated: when listFiles returns, an empty or absent prefix has given
\* every key stored in the container, and a prefix that matches no key, or a
\* response without contents, has given the empty sequence.
C6_ListReturnsAllKeys ==
  [][ (op = "list" /\ outcome.status = "pending" /\ outcome'.status = "ok") =>
        LET data == reqs[1]
            stored == {r.key : r \in {x \in Refs : x.bucket = data.bucket /\ store[x].present}}
        IN  /\ data.prefix \in {None, Some(<<>>)} =>
                 {outcome'.value[j] : j \in DOMAIN outcome'.value} = stored
            /\ (data.prefix # None /\ \A k \in stored : ~IsPrefix(data.prefix[1], k)) =>
                 outcome'.value = <<>>
            /\ reply'.value.Contents = None => outcome'.value = <<>> ]_vars

\* C7: with no expiresIn in the request, getSignedUrl calls the presigner once,
\* with a get-object command for the request's bucket and key and an expiry of
\* 3600 seconds, and returns the presigner's string as it is.
C7_DefaultExpiry ==
  (op = "sign" /\ reqs[1].expiresIn = None) =>
    /\ Len(Issued) = 1
    /\ Issued[1].kind = "sign"
    /\ Issued[1].cmd = [name |-> "GetObject", Bucket |-> reqs[1].bucket, Key |-> reqs[1].key]
    /\ Issued[1].options = [expiresIn |-> 3600]
    /\ outcome.status = "ok" => (reply.kind = "response" /\ outcome.value = reply.value)

\* A request without any expiry has been signed.
C7_Witness ==
  /\ op = "sign"
  /\ reqs[1].expiresIn = None
  /\ reqs[1].expiresInSeconds = None
  /\ outcome.status = "ok"
  /\ outcome.value = "https://signedurl"

\* The expiry the caller put in the request, under either name.
SuppliedExpiry(data) ==
  IF data.expiresIn # None THEN data.expiresIn ELSE data.expiresInSeconds

\* C8: when the request carries an expiry, getSignedUrl calls the presigner
\* exactly once, with the service's client, a get-object command for the
\* request's bucket and key, and options whose expiresIn is that expiry.
C8_CallerExpiryUsed ==
  (op = "sign" /\ SuppliedExpiry(reqs[1]) # None) =>
    /\ Len(Issued) = 1
    /\ Issued[1].kind = "sign"
    /\ Issued[1].client = "this.s3"
    /\ Issued[1].cmd = [name |-> "GetObject", Bucket |-> reqs[1].bucket, Key |-> reqs[1].key]
    /\ Issued[1].options = [expiresIn |-> SuppliedExpiry(reqs[1])[1]]

\* The put-object commands of the call: one per request, in order, each with
\* the request's bucket, key and content.
OnePutPerRequest ==
  /\ Len(Issued) = Len(reqs)
  /\ \A j \in DOMAIN reqs :
       /\ Issued[j].kind = "send"
       /\ Issued[j].cmd.name = "PutObject"
       /\ Issued[j].cmd.Bucket = reqs[j].bucket
       /\ Issued[j].cmd.Key = reqs[j].key
       /\ Issued[j].cmd.Body = reqs[j].content

\* C9 as stated: one put-object command per request, whose content type is the
\* request's when the request has one and application/octet-stream when not.
C9_ContentTypeAsSupplied ==
  op = "upload" =>
    /\ OnePutPerRequest
    /\ \A j \in DOMAIN reqs :
         Issued[j].cmd.ContentType =
           (IF reqs[j].contentType # None THEN reqs[j].contentType[1] ELSE OctetStream)

\* C9 amended: the content type is the request's when the request has a
\* non-empty one, and application/octet-stream when it has none or an empty one.
C9_ContentType ==
  op = "upload" =>
    /\ OnePutPerRequest
    /\ \A j \in DOMAIN reqs :
         Issued[j].cmd.ContentType =
           (IF reqs[j].contentType \notin {None, Some(<<>>)}
            THEN reqs[j].contentType[1] ELSE OctetStream)

\* An upload of a request with a content type and one with an empty content type.
C9_Witness ==
  /\ op = "upload"
  /\ Len(reqs) = 2
  /\ reqs[1].contentType = Some(TextPlain)
  /\ reqs[2].contentType = Some(<<>>)
  /\ outcome.status = "ok"

\* C10: a call issues each of its remote commands once and never again, and a
\* call whose remote command failed ends with that command's error, not a value.
C10_NoRetryNoRecovery ==
  op # "idle" =>
    /\ Len(Issued) = (IF op \in BatchOps THEN Len(reqs) ELSE 1)
    /\ (op \in BatchOps /\ Rejected # {}) =>
         /\ outcome.status = "err"
         /\ outcome.value = None
         /\ \E j \in Rejected : outcome.error = Some(RemoteError(j))
    /\ (op \notin BatchOps /\ reply.kind = "error") =>
         /\ outcome.status = "err"
         /\ outcome.value = None
         /\ outcome.error = Some(reply.error)

\* listFiles has failed on the list command's error.
C10_Witness ==
  /\ op = "list"
  /\ reply.kind = "error"
  /\ outcome.status = "err"
  /\ Len(Issued) = 1

----------------------------------------------------------------------------
\* C11: in the end-to-end sequence on the initially empty container (upload
\* of one object, list with the empty prefix, download, delete, list), each
\* call made after the one before it succeeded, the first list returns
\* exactly the uploaded key, the download returns exactly the uploaded
\* content, and the list after the delete returns the empty sequence.
C11_EndToEnd ==
  (stage \in 1..Len(EndToEnd) /\ outcome.status = "ok") =>
    /\ op = EndToEnd[stage].op
    /\ stage = 2 => outcome.value = <<EndToEnd[1].data[1].key>>
    /\ stage = 3 => outcome.value = <<EndToEnd[1].data[1].content>>
    /\ stage = 5 => outcome.value = <<>>

C11_Witness ==
  /\ stage = Len(EndToEnd)
  /\ op = "list"
  /\ outcome.status = "ok"
  /\ store = [r \in Refs |-> NoObj]

----------------------------------------------------------------------------
\* C12: logging never alters control flow, failing logger calls included: the
\* remote commands a call issues (one per request, or the single command) and
\* the outcome it delivers are those the remote results alone determine: a
\* batch call fails exactly when an item was rejected, with the error of the
\* first rejection, and listFiles / getSignedUrl deliver the collaborator's
\* response or error.
C12_LoggerAdvisory ==
  op # "idle" =>
    /\ Len(Issued) = (IF op \in BatchOps THEN Len(reqs) ELSE 1)
    /\ op \in BatchOps =>
         /\ outcome.status = "err" <=> Rejected # {}
         /\ Rejected # {} => outcome.error = Some(RemoteError(firstRej))
    /\ op \in {"list", "sign"} =>
         /\ reply.kind = "none" <=> outcome.status = "pending"
         /\ reply.kind = "response" <=> outcome.status = "ok"
         /\ reply.kind = "error" => outcome.error = Some(reply.error)

----------------------------------------------------------------------------
StartNotices == SelectSeq(trace, LAMBDA e : e = Log(StartMsg(op)))

CompletionNotices ==
  SelectSeq(trace, LAMBDA e : /\ e.kind = "log"
                              /\ e.level = "log"
                              /\ e # Log(StartMsg(op)))

\* The notices of a call: its first trace entry is its only start notice (so
\* every remote command comes after it), an unsettled call has no terminal
\* notice, a failed call ends with one error notice and has no completion
\* notice, and a call that succeeded has no error notice and done completion
\* notices, the last entry of its trace when there is one.
NoticesOfCall(done) ==
  /\ trace # <<>>
  /\ trace[1] = Log(StartMsg(op))
  /\ Len(StartNotices) = 1
  /\ outcome.status = "pending" => CompletionNotices = <<>> /\ ErrorLogs = <<>>
  /\ outcome.status = "err" =>
       /\ CompletionNotices = <<>>
       /\ Len(ErrorLogs) = 1
       /\ trace[Len(trace)] = ErrorLogs[1]
  /\ outcome.status = "ok" =>
       /\ ErrorLogs = <<>>
       /\ Len(CompletionNotices) = done
       /\ done = 1 => trace[Len(trace)] = CompletionNotices[1]

\* C13 as stated: every call of each of the five operations emits exactly
\* one start notice before any remote command and ends with exactly one
\* terminal notice, a completion notice when it succeeds and an error notice
\* when it fails.
C13_OneTerminalNotice == op # "idle" => NoticesOfCall(1)

\* C13 amended: as above, except that a downloadFiles call that succeeds
\* emits no completion notice (only its start notice).
C13_Notices ==
  op # "idle" => NoticesOfCall(IF op = "download" THEN 0 ELSE 1)

\* A batch call has failed after its start notice and both commands.
C13_Witness ==
  /\ op = "delete"
  /\ outcome.status = "err"
  /\ Len(trace) = 4
  /\ Len(ErrorLogs) = 1

----------------------------------------------------------------------------
\* An upload batch of two requests for the same container and key with
\* different contents.
DuplicateKeyBatch ==
  /\ op = "upload"
  /\ Len(reqs) = 2
  /\ RefOf(reqs[1]) = RefOf(reqs[2])
  /\ reqs[1].content # reqs[2].content

\* Both writes are in flight together: each has been issued, for the key and
\* with the content of its request, whatever has become of the other; and
\* while nothing but the batch has written the object since, the object
\* stored once the call has resolved holds the content of one of the two.
DuplicateKeyWrites ==
  DuplicateKeyBatch =>
    /\ Len(Issued) = 2
    /\ \A j \in 1..2 :
         /\ Issued[j].cmd.name = "PutObject"
         /\ Addressed(Issued[j].cmd) = RefOf(reqs[j])
         /\ Issued[j].cmd.Body = reqs[j].content
    /\ (outcome.status = "ok" /\ want[RefOf(reqs[1])] # {}) =>
         /\ store[RefOf(reqs[1])].present
         /\ store[RefOf(reqs[1])].body \in {reqs[1].content, reqs[2].content}

\* The write the service applies is the object stored from then on, whichever
\* request of the input it belongs to: the write applied last is the object
\* stored when the call resolves.
LastAppliedWins ==
  \A i \in DOMAIN items :
    (/\ DuplicateKeyBatch
     /\ items[i].st = "pending"
     /\ i \in DOMAIN items'
     /\ items'[i].st = "fulfilled") =>
      /\ store'[RefOf(reqs[i])].present
      /\ store'[RefOf(reqs[i])].body = reqs[i].content

\* C14: one uploadFiles batch with two requests for the same container and
\* key and different contents issues both writes concurrently; the object
\* stored once the call has resolved is the content of one of the two
\* requests, the one whose write the remote service applied last, whatever
\* its position in the input.
C14_DuplicateKeyRace == []DuplicateKeyWrites /\ [][LastAppliedWins]_vars

\* The call has resolved and the object holds the content of the first
\* request: the service applied the second request's write first.
C14_Witness ==
  /\ DuplicateKeyBatch
  /\ outcome.status = "ok"
  /\ want[RefOf(reqs[1])] = {reqs[1].content, reqs[2].content}
  /\ store[RefOf(reqs[1])].body = reqs[1].content

====
